---- MODULE Spec2Model ----
(***************************************************************************)
(* PhishGuard training scripts (email_bert_training.py,                    *)
(* sms_bilstm_training.py, url_cnn_training.py) as state machines.         *)
(*                                                                         *)
(*   Spec      one training run: load, split, encode, build, fit (epochs   *)
(*             with the three Keras callbacks), evaluate, report, export.  *)
(*   SpecUrl   preprocess_urls applied to bounded lists of URLs.           *)
(*   SpecLoad  the three dataset loaders applied to bounded tables.        *)
(*                                                                         *)
(* The callbacks are tf.keras 2.x callbacks (the scripts save to a         *)
(* directory without extension and pass input_length to Embedding, which   *)
(* only that line of Keras accepts); their on_epoch_end bodies are         *)
(* modelled with the parameters the scripts configure.                     *)
(***************************************************************************)
EXTENDS Integers, Sequences, FiniteSets, TLC

VARIABLES
    \* ---- one training run (train_email_model / train_sms_model / train_url_model)
    m,              \* which pipeline runs: "email_lstm", "email_bert", "sms", "url"
    run,            \* number of the run writing to the output directory
    pc,             \* position of the run in the train_* function
    epoch,          \* epochs of model.fit completed
    weights,        \* in-memory weights: k = the weights at the end of epoch k
    stop_training,  \* model.stop_training
    lr,             \* optimizer learning rate, in units of 1e-7/64
    es,             \* EarlyStopping: wait, best, best_weights
    rlr,            \* ReduceLROnPlateau: wait, best
    ck,             \* ModelCheckpoint: best
    ckpt,           \* file MODEL_SAVE_PATH + '_best.h5'
    native,         \* directory MODEL_SAVE_PATH (model.save / save_pretrained)
    tfjs,           \* TFJS_SAVE_PATH/model.json + shards
    vocab,          \* TFJS_SAVE_PATH/vocabulary.json
    meta,           \* metadata.json
    hist,           \* summary of the History of the run (what the epochs' logs were)
    \* ---- preprocess_urls
    urls, max_length, sequences, ustate,
    \* ---- load_*_dataset
    loader, table, loaded,
    \* ---- one call of a helper of the pipelines on its own
    call,           \* the helper called, "none" if none
    args,           \* its arguments
    ret             \* what it returned, <<>> before it returns

runVars == <<m, run, pc, epoch, weights, stop_training, lr, es, rlr, ck,
             ckpt, native, tfjs, vocab, meta, hist>>
urlVars == <<urls, max_length, sequences, ustate>>
loadVars == <<loader, table, loaded>>
fnVars == <<call, args, ret>>
vars == <<runVars, urlVars, loadVars, fnVars>>

----------------------------------------------------------------------------
(* Bounds of the model *)

\* SpecFit: finite validation losses are 0..MaxLoss, in units of 5e-5
MaxLoss == 3
\* SpecFit, SpecShape: validation accuracies are 0..MaxAcc (correct
\* validation examples)
MaxAcc == 1
\* SpecShape: finite validation losses are 0..MaxShapeLoss
MaxShapeLoss == 5
\* Spec: finite validation losses are 0..MaxRunLoss, accuracies 0..MaxRunAcc
MaxRunLoss == 1
MaxRunAcc == 1
\* SpecUrl: lists of at most MaxUrls URLs of at most MaxUrlLen characters,
\* max_length in 0..MaxMaxLength
MaxUrls == 1
MaxUrlLen == 2
MaxMaxLength == 3

----------------------------------------------------------------------------
(* Configuration of the three scripts *)

EMAIL_EPOCHS == 5
SMS_EPOCHS == 15
URL_EPOCHS == 20

EMAIL_ES_PATIENCE == 3
SMS_ES_PATIENCE == 5
URL_ES_PATIENCE == 5

EMAIL_LR_PATIENCE == 2
SMS_LR_PATIENCE == 3
URL_LR_PATIENCE == 3

\* min_lr = 1e-7, in units of 1e-7/64
MIN_LR == 64
\* Adam(learning_rate=0.001), in units of 1e-7/64
LEARNING_RATE_DEFAULT == 640000
\* LEARNING_RATE = 2e-5 (DistilBERT), in units of 1e-7/64
LEARNING_RATE_BERT == 12800
\* ReduceLROnPlateau's min_delta (Keras default 1e-4), in loss units of 5e-5
RLR_MIN_DELTA == 2

Modalities == {"email_lstm", "email_bert", "sms", "url"}

EPOCHS(mod) ==
    CASE mod = "sms" -> SMS_EPOCHS
      [] mod = "url" -> URL_EPOCHS
      [] OTHER -> EMAIL_EPOCHS

EsPatience(mod) ==
    CASE mod = "sms" -> SMS_ES_PATIENCE
      [] mod = "url" -> URL_ES_PATIENCE
      [] OTHER -> EMAIL_ES_PATIENCE

LrPatience(mod) ==
    CASE mod = "sms" -> SMS_LR_PATIENCE
      [] mod = "url" -> URL_LR_PATIENCE
      [] OTHER -> EMAIL_LR_PATIENCE

InitialLr(mod) == IF mod = "email_bert" THEN LEARNING_RATE_BERT ELSE LEARNING_RATE_DEFAULT

\* pipelines that convert the model to TensorFlow.js
ExportsTfjs(mod) == mod # "email_bert"
\* pipelines with a TextVectorization layer whose vocabulary is saved
WordLevel(mod) == mod \in {"email_lstm", "sms"}

----------------------------------------------------------------------------
(* Floating-point values of the logs: a number, +inf or NaN *)

Fin(n) == [k |-> "fin", v |-> n]
PosInf == [k |-> "inf", v |-> 0]
NaN == [k |-> "nan", v |-> 0]

IsFinite(a) == a.k = "fin"

\* np.less(a, b): false whenever either side is NaN
FLess(a, b) ==
    /\ a.k # "nan"
    /\ b.k # "nan"
    /\ a.k # "inf"
    /\ (b.k = "inf" \/ a.v < b.v)

\* a - d for a finite d: inf and NaN absorb
FSub(a, d) == IF a.k = "fin" THEN Fin(a.v - d) ELSE a

MaxOf(a, b) == IF a >= b THEN a ELSE b
MinOf(a, b) == IF a <= b THEN a ELSE b

Losses(top) == {Fin(n) : n \in 0..top} \cup {PosInf, NaN}

----------------------------------------------------------------------------
(* Files of the output directories *)

\* best_weights before the first epoch
None == 0 - 1

Absent == [st |-> "absent", run |-> 0, w |-> None]
File(state, r, w) == [st |-> state, run |-> r, w |-> w]

----------------------------------------------------------------------------
(* The three callbacks, in the order the scripts list them *)

\* EarlyStopping as it would behave with restore_best_weights left at its
\* default (False): the model keeps the weights of the last epoch.
EarlyStoppingNoRestore(cb, e, current, w, patience) ==
    LET held == IF cb.best_weights = None THEN w ELSE cb.best_weights
        improved == FLess(current, cb.best)
        wait1 == IF improved THEN 0 ELSE cb.wait + 1
        stop == wait1 >= patience /\ e > 1
    IN  [cb |-> [wait |-> wait1,
                 best |-> IF improved THEN current ELSE cb.best,
                 best_weights |-> IF improved THEN w ELSE held],
         stop |-> stop,
         weights |-> w]

\* EarlyStopping that stops one epoch late (wait > patience).
EarlyStoppingLate(cb, e, current, w, patience) ==
    LET held == IF cb.best_weights = None THEN w ELSE cb.best_weights
        improved == FLess(current, cb.best)
        wait1 == IF improved THEN 0 ELSE cb.wait + 1
        bw1 == IF improved THEN w ELSE held
        stop == wait1 > patience /\ e > 1
    IN  [cb |-> [wait |-> wait1,
                 best |-> IF improved THEN current ELSE cb.best,
                 best_weights |-> bw1],
         stop |-> stop,
         weights |-> IF stop THEN bw1 ELSE w]

\* EarlyStopping that puts the best weights back after every epoch, not
\* only when it stops the training.
EarlyStoppingRestoreAlways(cb, e, current, w, patience) ==
    LET held == IF cb.best_weights = None THEN w ELSE cb.best_weights
        improved == FLess(current, cb.best)
        wait1 == IF improved THEN 0 ELSE cb.wait + 1
        bw1 == IF improved THEN w ELSE held
        stop == wait1 >= patience /\ e > 1
    IN  [cb |-> [wait |-> wait1,
                 best |-> IF improved THEN current ELSE cb.best,
                 best_weights |-> bw1],
         stop |-> stop,
         weights |-> bw1]

\* keras.callbacks.EarlyStopping(monitor='val_loss', patience=p,
\* restore_best_weights=True).on_epoch_end, after epoch e (1-based) left the
\* model with weights w. Returns the callback's new state, whether it
\* set model.stop_training, and the weights it leaves in the model.
EarlyStoppingOnEpochEnd(cb, e, current, w, patience) ==
    LET held == IF cb.best_weights = None THEN w ELSE cb.best_weights
        improved == FLess(current, cb.best)
        wait1 == IF improved THEN 0 ELSE cb.wait + 1
        best1 == IF improved THEN current ELSE cb.best
        bw1 == IF improved THEN w ELSE held
        stop == wait1 >= patience /\ e > 1
    IN  [cb |-> [wait |-> wait1, best |-> best1, best_weights |-> bw1],
         stop |-> stop,
         weights |-> IF stop THEN bw1 ELSE w]

\* ReduceLROnPlateau that waits one epoch too long (wait > patience).
ReduceLROnPlateauLate(cb, rate, current, patience) ==
    LET improved == FLess(current, FSub(cb.best, RLR_MIN_DELTA))
        wait1 == IF improved THEN 0 ELSE cb.wait + 1
        reduce == ~improved /\ wait1 > patience /\ rate > MIN_LR
    IN  [cb |-> [wait |-> IF reduce THEN 0 ELSE wait1,
                 best |-> IF improved THEN current ELSE cb.best],
         lr |-> IF reduce THEN MaxOf(rate \div 2, MIN_LR) ELSE rate]

\* keras.callbacks.ReduceLROnPlateau(monitor='val_loss', factor=0.5,
\* patience=p, min_lr=1e-7).on_epoch_end (cooldown 0, min_delta 1e-4).
ReduceLROnPlateauOnEpochEnd(cb, rate, current, patience) ==
    LET improved == FLess(current, FSub(cb.best, RLR_MIN_DELTA))
        wait1 == IF improved THEN 0 ELSE cb.wait + 1
        reduce == ~improved /\ wait1 >= patience /\ rate > MIN_LR
    IN  [cb |-> [wait |-> IF reduce THEN 0 ELSE wait1,
                 best |-> IF improved THEN current ELSE cb.best],
         lr |-> IF reduce THEN MaxOf(rate \div 2, MIN_LR) ELSE rate]

\* keras.callbacks.ModelCheckpoint(MODEL_SAVE_PATH + '_best.h5',
\* monitor='val_accuracy', save_best_only=True).on_epoch_end: whether the
\* model is saved this epoch (np.greater against best, initially -inf).
ModelCheckpointOnEpochEnd(cb, current) ==
    [cb |-> [best |-> IF current > cb.best THEN current ELSE cb.best],
     save |-> current > cb.best]

\* A checkpoint error that is caught and logged instead of raised.
CheckpointErrorSwallowed == FALSE

\* What an exception raised by model.save inside ModelCheckpoint does to
\* fit: it is not caught, so it leaves fit and train_*_model.
CheckpointErrorPropagates == TRUE

----------------------------------------------------------------------------
(* The history of the run: what the per-epoch logs were *)

HistInit ==
    [min |-> PosInf,        \* lowest validation loss so far
     minEpoch |-> 0,        \* earliest epoch that had it (0: none yet)
     sinceImp |-> 0,        \* latest consecutive epochs without a new lowest
                            \* loss (counted up to the early-stop patience)
     last |-> PosInf,       \* validation loss of the latest epoch (kept while
                            \* the losses have the shape below)
     maxAcc |-> None,       \* highest validation accuracy so far
     maxAccEpoch |-> 0,     \* earliest epoch that had it
     lastWrite |-> 0,       \* latest epoch whose checkpoint write completed
     sinceReduce |-> 0,     \* epochs since the learning rate last changed
                            \* (counted up to the learning-rate patience)
     nonfinite |-> FALSE,   \* some training or validation loss was inf or NaN
     valNaN |-> FALSE,      \* some validation loss was NaN
     ckptFailed |-> 0,      \* epoch at which writing the checkpoint failed
     shape |-> TRUE,        \* losses so far: down for two epochs, then up
     abortStep |-> "none",  \* the step that failed
     evaluated |-> None]    \* weights the test metrics were computed with

HistRecord(h, mod, e, tl, vl, va, newLr, oldLr, wrote, failed) ==
    LET first == h.minEpoch = 0 /\ vl.k # "nan"
        lower == first \/ FLess(vl, h.min)
        shape1 == CASE e = 1 -> IsFinite(vl)
                    [] e = 2 -> h.shape /\ IsFinite(vl) /\ FLess(vl, h.last)
                    [] OTHER -> h.shape /\ IsFinite(vl) /\ FLess(h.last, vl)
    IN  [h EXCEPT
           !.min = IF lower THEN vl ELSE @,
           !.minEpoch = IF lower THEN e ELSE @,
           !.sinceImp = IF lower THEN 0 ELSE MinOf(@ + 1, EsPatience(mod)),
           !.last = IF shape1 THEN vl ELSE PosInf,
           !.maxAcc = IF va > @ THEN va ELSE @,
           !.maxAccEpoch = IF va > h.maxAcc THEN e ELSE @,
           !.lastWrite = IF wrote THEN e ELSE @,
           !.sinceReduce = IF newLr # oldLr THEN 0 ELSE MinOf(@ + 1, LrPatience(mod)),
           !.nonfinite = @ \/ ~IsFinite(tl) \/ ~IsFinite(vl),
           !.valNaN = @ \/ vl.k = "nan",
           !.ckptFailed = IF failed THEN e ELSE @,
           !.shape = shape1,
           !.abortStep = IF failed THEN "checkpoint" ELSE @]

----------------------------------------------------------------------------
(* One training run *)

\* the statements of train_*_model in the order each script executes them
NextPc(mod, p) ==
    CASE p = "load" -> IF mod = "url" THEN "encode" ELSE "split"
      [] p = "split" -> IF mod = "url" THEN "build" ELSE "encode"
      [] p = "encode" -> IF mod = "url" THEN "split" ELSE "build"
      [] p = "build" -> "fit"
      [] p = "evaluate" -> "report"
      [] p = "report" -> "save_native"
      [] p = "save_native" -> IF ExportsTfjs(mod) THEN "save_tfjs" ELSE "open_metadata"
      [] p = "save_tfjs" -> IF WordLevel(mod) THEN "save_vocab" ELSE "open_metadata"
      [] p = "save_vocab" -> "open_metadata"
      [] p = "open_metadata" -> "dump_metadata"
      [] p = "dump_metadata" -> "done"
      [] OTHER -> p

\* build_simplified_text_model uses `layers`, a name email_bert_training.py
\* never imports: the call raises NameError whatever the data.
BuildOutcomes(mod) == IF mod = "email_lstm" THEN {FALSE} ELSE BOOLEAN

Advance(step, ok) ==
    /\ pc = step
    /\ pc' = IF ok THEN NextPc(m, step) ELSE "aborted"
    /\ hist' = IF ok THEN hist ELSE [hist EXCEPT !.abortStep = step]

RunInitAt(p) ==
    /\ m \in Modalities
    /\ run = 1
    /\ pc = p
    /\ epoch = 0
    /\ weights = 0
    /\ stop_training = FALSE
    /\ lr = InitialLr(m)
    /\ es = [wait |-> 0, best |-> PosInf, best_weights |-> None]
    /\ rlr = [wait |-> 0, best |-> PosInf]
    /\ ck = [best |-> None]
    /\ ckpt = Absent
    /\ native = Absent
    /\ tfjs = Absent
    /\ vocab = Absent
    /\ meta = Absent
    /\ hist = HistInit

Load ==
    /\ \E ok \in BOOLEAN : Advance("load", ok)
    /\ UNCHANGED <<m, run, epoch, weights, stop_training, lr, es, rlr, ck,
                   ckpt, native, tfjs, vocab, meta>>

Split ==
    /\ \E ok \in BOOLEAN : Advance("split", ok)
    /\ UNCHANGED <<m, run, epoch, weights, stop_training, lr, es, rlr, ck,
                   ckpt, native, tfjs, vocab, meta>>

Encode ==
    /\ \E ok \in BOOLEAN : Advance("encode", ok)
    /\ UNCHANGED <<m, run, epoch, weights, stop_training, lr, es, rlr, ck,
                   ckpt, native, tfjs, vocab, meta>>

Build ==
    /\ \E ok \in BuildOutcomes(m) : Advance("build", ok)
    /\ UNCHANGED <<m, run, epoch, weights, stop_training, lr, es, rlr, ck,
                   ckpt, native, tfjs, vocab, meta>>

\* One epoch of model.fit: train, validate, then the callbacks'
\* on_epoch_end in list order (EarlyStopping, ReduceLROnPlateau,
\* ModelCheckpoint), then the loop test of fit.
\* The parameters are the values the epoch's logs and the checkpoint write
\* are drawn from.
Epoch(TrainLosses, ValLosses, ValAccs, WriteOutcomes) ==
    /\ pc = "fit"
    /\ ~stop_training
    /\ epoch < EPOCHS(m)
    /\ \E tl \in TrainLosses, vl \in ValLosses, va \in ValAccs, io \in WriteOutcomes :
        LET e == epoch + 1
            esR == EarlyStoppingOnEpochEnd(es, e, vl, e, EsPatience(m))
            rlR == ReduceLROnPlateauOnEpochEnd(rlr, lr, vl, LrPatience(m))
            ckR == ModelCheckpointOnEpochEnd(ck, va)
            failed == ckR.save /\ io # "ok"
            wrote == ckR.save /\ io = "ok"
            raised == failed /\ CheckpointErrorPropagates
        IN  /\ (~ckR.save => io = "ok")
            /\ epoch' = e
            /\ es' = esR.cb
            /\ stop_training' = esR.stop
            /\ weights' = esR.weights
            /\ rlr' = rlR.cb
            /\ lr' = rlR.lr
            /\ ck' = ckR.cb
            /\ ckpt' = CASE wrote -> File("complete", run, esR.weights)
                         [] failed /\ io = "fail_partial" -> File("partial", run, esR.weights)
                         [] OTHER -> ckpt
            /\ hist' = HistRecord(hist, m, e, tl, vl, va, rlR.lr, lr, wrote, failed)
            /\ pc' = IF raised THEN "aborted"
                     ELSE IF esR.stop \/ e = EPOCHS(m) THEN "evaluate"
                     ELSE "fit"
    /\ UNCHANGED <<m, run, native, tfjs, vocab, meta>>

\* model.evaluate and model.predict on the test partition
Evaluate ==
    /\ pc = "evaluate"
    /\ \E ok \in BOOLEAN :
        /\ pc' = IF ok THEN "report" ELSE "aborted"
        /\ hist' = IF ok THEN [hist EXCEPT !.evaluated = weights]
                   ELSE [hist EXCEPT !.abortStep = "evaluate"]
    /\ UNCHANGED <<m, run, epoch, weights, stop_training, lr, es, rlr, ck,
                   ckpt, native, tfjs, vocab, meta>>

\* precision_recall_fscore_support, confusion_matrix, the printed report
Report ==
    /\ \E ok \in BOOLEAN : Advance("report", ok)
    /\ UNCHANGED <<m, run, epoch, weights, stop_training, lr, es, rlr, ck,
                   ckpt, native, tfjs, vocab, meta>>

\* what a write that fails leaves of file f: f as it was, or a partial file
AfterFailedWrite(f, w) == {f, File("partial", run, w)}

\* os.makedirs(MODEL_SAVE_PATH); model.save / model.save_pretrained
SaveNative ==
    /\ \E ok \in BOOLEAN :
        /\ Advance("save_native", ok)
        /\ native' \in IF ok THEN {File("complete", run, weights)}
                       ELSE AfterFailedWrite(native, weights)
    /\ UNCHANGED <<m, run, epoch, weights, stop_training, lr, es, rlr, ck,
                   ckpt, tfjs, vocab, meta>>

\* os.makedirs(TFJS_SAVE_PATH); tfjs.converters.save_keras_model
SaveTfjs ==
    /\ \E ok \in BOOLEAN :
        /\ Advance("save_tfjs", ok)
        /\ tfjs' \in IF ok THEN {File("complete", run, weights)}
                     ELSE AfterFailedWrite(tfjs, weights)
    /\ UNCHANGED <<m, run, epoch, weights, stop_training, lr, es, rlr, ck,
                   ckpt, native, vocab, meta>>

\* get_vocabulary; open(vocab_path, 'w'); json.dump(vocab, f)
SaveVocab ==
    /\ \E ok \in BOOLEAN :
        /\ Advance("save_vocab", ok)
        /\ vocab' \in IF ok THEN {File("complete", run, None)}
                      ELSE AfterFailedWrite(vocab, None)
    /\ UNCHANGED <<m, run, epoch, weights, stop_training, lr, es, rlr, ck,
                   ckpt, native, tfjs, meta>>

\* open(metadata_path, 'w'): creates or truncates metadata.json
OpenMetadata ==
    /\ \E ok \in BOOLEAN :
        /\ Advance("open_metadata", ok)
        /\ meta' = IF ok THEN File("empty", run, None) ELSE meta
    /\ UNCHANGED <<m, run, epoch, weights, stop_training, lr, es, rlr, ck,
                   ckpt, native, tfjs, vocab>>

\* json.dump(metadata, f, indent=2) inside the with block: on an error the
\* file is closed with whatever was written, and is not removed
DumpMetadata ==
    /\ \E ok \in BOOLEAN :
        /\ Advance("dump_metadata", ok)
        /\ meta' \in IF ok THEN {File("complete", run, None)}
                     ELSE {meta, File("partial", run, None)}
    /\ UNCHANGED <<m, run, epoch, weights, stop_training, lr, es, rlr, ck,
                   ckpt, native, tfjs, vocab>>

RunEpoch == Epoch({Fin(0), NaN}, Losses(MaxRunLoss), 0..MaxRunAcc,
                  {"ok", "fail_untouched", "fail_partial"})

RunNext ==
    \/ Load \/ Split \/ Encode \/ Build \/ RunEpoch \/ Evaluate \/ Report
    \/ SaveNative \/ SaveTfjs \/ SaveVocab \/ OpenMetadata \/ DumpMetadata

UrlIdle == urls = <<>> /\ max_length = 0 /\ sequences = <<>> /\ ustate = "idle"
\* A CSV file as read_csv sees it: the header and the rows of raw cell texts.
NoTable == [cols |-> <<>>, rows |-> <<>>]

\* The loader's outcome before it has been called.
NotLoaded ==
    [status |-> "none", site |-> "none", listed |-> <<>>,
     text_col |-> None, label_col |-> None, texts |-> <<>>, labels |-> <<>>]

LoadIdle == loader = "none" /\ table = NoTable /\ loaded = NotLoaded

FnIdle == call = "none" /\ args = <<>> /\ ret = <<>>

Init == RunInitAt("load") /\ UrlIdle /\ LoadIdle /\ FnIdle
Next == RunNext /\ UNCHANGED <<urlVars, loadVars, fnVars>>
Spec == Init /\ [][Next]_vars

\* model.fit alone, from the state in which train_*_model calls it (the
\* email script reaches fit only with use_simplified=False), over a wider
\* range of validation losses, with every checkpoint write succeeding
FitInit ==
    /\ RunInitAt("fit")
    /\ m # "email_lstm"
    /\ UrlIdle /\ LoadIdle /\ FnIdle
FitEpoch == Epoch({Fin(0)}, Losses(MaxLoss), 0..MaxAcc, {"ok"})
FitNext == FitEpoch /\ UNCHANGED <<urlVars, loadVars, fnVars>>
SpecFit == FitInit /\ [][FitNext]_vars

\* model.fit on the synthetic runs whose validation loss goes down for two
\* epochs and up from then on
ShapeLosses ==
    {vl \in Losses(MaxShapeLoss) :
        CASE epoch = 0 -> IsFinite(vl)
          [] epoch = 1 -> IsFinite(vl) /\ FLess(vl, hist.last)
          [] OTHER -> IsFinite(vl) /\ FLess(hist.last, vl)}
ShapeEpoch == Epoch({Fin(0)}, ShapeLosses, 0..MaxAcc, {"ok"})
ShapeNext == ShapeEpoch /\ UNCHANGED <<urlVars, loadVars, fnVars>>
SpecShape == FitInit /\ [][ShapeNext]_vars

----------------------------------------------------------------------------
(* Claims about one training run *)

\* file f was not written, not even in part, by the current run
NotWritten(f) == f.run # run
Complete(f) == f.st = "complete" /\ f.run = run
Ended == pc \in {"aborted", "done"}

\* C1: a run that starts with an empty output directory and aborts leaves
\* no metadata.json, not even an empty or partial one; and when
\* metadata.json exists after the run, the run completed and the native
\* model, the TFJS model and (word-level pipelines) vocabulary.json were
\* written before it. (Stated for the runs whose losses stay finite.)
C1_NoPartialMetadata ==
    /\ (pc = "aborted" /\ ~hist.nonfinite) => meta.st = "absent"
    /\ (Ended /\ ~hist.nonfinite /\ meta.st # "absent") =>
          /\ pc = "done"
          /\ Complete(meta)
          /\ Complete(native)
          /\ (ExportsTfjs(m) => Complete(tfjs))
          /\ (WordLevel(m) => Complete(vocab))

\* C2: as soon as the validation loss has failed to improve on the best
\* value so far for `patience` consecutive epochs, fit has returned (no
\* further epoch runs) and the model holds the weights of the end of the
\* (earliest) epoch with the lowest validation loss. Stated for the runs
\* whose validation losses are numbers or +inf; a NaN loss has no order.
C2_EarlyStop ==
    (epoch >= 1 /\ ~hist.valNaN /\ hist.sinceImp >= EsPatience(m)) =>
        /\ stop_training
        /\ pc = "evaluate"
        /\ weights = hist.minEpoch

C2_Witness ==
    /\ ~hist.valNaN
    /\ hist.sinceImp >= EsPatience(m)
    /\ pc = "evaluate"
    /\ epoch < EPOCHS(m)
    /\ weights = hist.minEpoch
    /\ weights < epoch

\* C3 as stated: when the validation loss goes down for the first two
\* epochs and up from then on, training halts at epoch 2+patience+1 and the
\* restored weights are those the checkpoint file holds from epoch 2,
\* whatever the validation accuracies.
C3_Original ==
    (pc = "evaluate" /\ hist.shape) =>
        /\ epoch = 2 + EsPatience(m) + 1
        /\ weights = 2
        /\ ckpt.w = 2

\* C3 as amended: on those runs training halts at the end of epoch
\* 2+patience (for email that is also the EPOCHS limit), early stopping
\* restores the weights of the end of epoch 2, and the checkpoint file
\* holds those same weights exactly when the earliest epoch with the
\* highest validation accuracy is epoch 2 or the halting epoch.
C3_HaltsAtTwoPlusPatience ==
    (pc = "evaluate" /\ hist.shape) =>
        /\ epoch = 2 + EsPatience(m)
        /\ epoch <= EPOCHS(m)
        /\ stop_training
        /\ weights = 2
        /\ (ckpt.w = 2 <=> hist.maxAccEpoch \in {2, epoch})

C3_Witness ==
    /\ pc = "evaluate"
    /\ hist.shape
    /\ m = "url"
    /\ epoch = 2 + URL_ES_PATIENCE
    /\ weights = 2
    /\ ckpt.w = 2
    /\ hist.maxAccEpoch = epoch

\* C4: the checkpoint file is written at the end of an epoch exactly when
\* the epoch's validation accuracy is strictly better than that of all
\* earlier epochs, so at every epoch boundary it holds the weights of the
\* earliest epoch with the highest validation accuracy so far. (Stated for
\* the runs whose losses stay finite.)
C4_CheckpointHoldsBestAccuracy ==
    (epoch >= 1 /\ ~hist.nonfinite) =>
        /\ hist.lastWrite = hist.maxAccEpoch
        /\ ckpt.st = "complete"
        /\ ckpt.w = hist.maxAccEpoch

\* C5: across the epochs the learning rate never increases and is never
\* below the minimum; when it changes it is halved (and floored at the
\* minimum); and whenever the validation loss has not improved for the
\* learning-rate patience window, a halving took place within that window.
C5_Step ==
    /\ lr' <= lr
    /\ lr' >= MIN_LR
    /\ (lr' # lr => lr' = MaxOf(lr \div 2, MIN_LR))
    /\ (hist'.sinceImp >= LrPatience(m) => hist'.sinceReduce < LrPatience(m))
    /\ LrPatience(m) < EsPatience(m)
C5_LearningRateDecay == [][C5_Step]_vars

C5_Witness ==
    /\ hist.sinceImp = LrPatience(m)
    /\ hist.sinceReduce = 0
    /\ lr * 4 <= InitialLr(m)

\* C6: once a training or validation loss is not finite the run has failed:
\* no further epoch, no evaluation, no export.
C6_DivergenceAborts == hist.nonfinite => pc = "aborted"

\* C7: when writing the best-weights checkpoint fails at the end of an
\* epoch, the run aborts at that epoch: no later epoch is trained, nothing
\* is evaluated and no export step (native model, TFJS model, vocabulary,
\* metadata.json) is executed.
C7_CheckpointFailureAborts ==
    hist.ckptFailed # 0 =>
        /\ pc = "aborted"
        /\ epoch = hist.ckptFailed
        /\ hist.evaluated = None
        /\ NotWritten(native)
        /\ NotWritten(tfjs)
        /\ NotWritten(vocab)
        /\ NotWritten(meta)

C7_Witness ==
    /\ hist.ckptFailed >= 2
    /\ pc = "aborted"
    /\ ckpt.st = "partial"

----------------------------------------------------------------------------
(* preprocess_urls (url_cnn_training.py) *)

VOCAB_SIZE == 128

\* ord(char) of the characters the URLs are made of: '/', DEL, U+0080, U+20AC
CodePoints == {47, 127, 128, 8364}

\* min(ord(char), VOCAB_SIZE - 1)
EncodeChar(c) == MinOf(c, VOCAB_SIZE - 1)

\* url[:max_length]
Slice(url, L) == SubSeq(url, 1, MinOf(Len(url), L))

\* seq += [0] * (max_length - len(seq)) without the test len(seq) < max_length
\* having any effect: nothing is appended.
PadNever(seq, L) == seq

\* if len(seq) < max_length: seq += [0] * (max_length - len(seq))
Pad(seq, L) == IF Len(seq) < L THEN seq \o [i \in 1..(L - Len(seq)) |-> 0] ELSE seq

EncodeUrl(url, L) == Pad([i \in 1..Len(Slice(url, L)) |-> EncodeChar(Slice(url, L)[i])], L)

preprocess_urls(us, L) == [i \in 1..Len(us) |-> EncodeUrl(us[i], L)]

SeqsUpTo(S, n) == UNION {[1..k -> S] : k \in 0..n}

RunIdle == RunInitAt("idle") /\ m = "url"

UrlInit ==
    /\ urls \in SeqsUpTo(SeqsUpTo(CodePoints, MaxUrlLen), MaxUrls)
    /\ max_length \in 0..MaxMaxLength
    /\ sequences = <<>>
    /\ ustate = "input"
    /\ RunIdle /\ LoadIdle /\ FnIdle

PreprocessUrls ==
    /\ ustate = "input"
    /\ sequences' = preprocess_urls(urls, max_length)
    /\ ustate' = "done"
    /\ UNCHANGED <<urls, max_length, runVars, loadVars, fnVars>>

SpecUrl == UrlInit /\ [][PreprocessUrls]_vars

\* C8: preprocess_urls returns for each URL u exactly max_length integers,
\* element i being min(ord(u[i]), 127) for i < min(len(u), max_length) and 0
\* at every later position; every element lies in 0..127.
C8_PreprocessUrls ==
    ustate = "done" =>
        /\ Len(sequences) = Len(urls)
        /\ \A i \in 1..Len(urls) :
            /\ Len(sequences[i]) = max_length
            /\ \A j \in 1..max_length :
                /\ sequences[i][j] \in 0..127
                /\ sequences[i][j] =
                      IF j <= Len(urls[i])
                      THEN (IF urls[i][j] < 127 THEN urls[i][j] ELSE 127)
                      ELSE 0

C8_Witness ==
    /\ ustate = "done"
    /\ Len(urls) = 1
    /\ Len(urls[1]) = 2
    /\ max_length = 3
    /\ urls[1][1] > 127
    /\ sequences[1] = <<127, EncodeChar(urls[1][2]), 0>>
    /\ urls[1][2] < 127

----------------------------------------------------------------------------
(* The dataset loaders.  A string is a sequence of one-character strings,  *)
(* so that lower(), the `in` substring test and the parsing of numbers are *)
(* computed and not assumed.  A cell is the raw text of a CSV field; the   *)
(* empty cell is what read_csv turns into NaN.                             *)

MaxRows == 2

Null == <<>>

UpperCase == <<"A","B","C","D","E","F","G","H","I","J","K","L","M",
               "N","O","P","Q","R","S","T","U","V","W","X","Y","Z">>
LowerCase == <<"a","b","c","d","e","f","g","h","i","j","k","l","m",
               "n","o","p","q","r","s","t","u","v","w","x","y","z">>

LowerChar(c) ==
    IF \E i \in 1..Len(UpperCase) : UpperCase[i] = c
    THEN LowerCase[CHOOSE i \in 1..Len(UpperCase) : UpperCase[i] = c]
    ELSE c

\* str.lower()
Lower(s) == [i \in 1..Len(s) |-> LowerChar(s[i])]

\* kw in s
Contains(s, kw) ==
    \E i \in 0..(Len(s) - Len(kw)) : SubSeq(s, i + 1, i + Len(kw)) = kw

kw_email == <<"e","m","a","i","l">>
kw_text == <<"t","e","x","t">>
kw_content == <<"c","o","n","t","e","n","t">>
kw_message == <<"m","e","s","s","a","g","e">>
kw_sms == <<"s","m","s">>
kw_label == <<"l","a","b","e","l">>
kw_class == <<"c","l","a","s","s">>
kw_target == <<"t","a","r","g","e","t">>
kw_spam == <<"s","p","a","m">>
kw_url == <<"u","r","l">>

EmailTextKeywords == {kw_email, kw_text, kw_content, kw_message}
EmailLabelKeywords == {kw_label, kw_class, kw_target}
SmsTextKeywords == {kw_sms, kw_text, kw_message, kw_content}
SmsLabelKeywords == {kw_label, kw_class, kw_target, kw_spam}

\* the scan with a break at the first match: an earlier column is kept
RECURSIVE ScanColumnsFirst(_, _, _, _, _, _)
ScanColumnsFirst(cols, i, text_col, label_col, textKw, labelKw) ==
    IF i > Len(cols) THEN [text_col |-> text_col, label_col |-> label_col]
    ELSE LET col_lower == Lower(cols[i])
             t == IF text_col = None /\ \E k \in textKw : Contains(col_lower, k)
                  THEN i ELSE text_col
             l == IF label_col = None /\ \E k \in labelKw : Contains(col_lower, k)
                  THEN i ELSE label_col
         IN  ScanColumnsFirst(cols, i + 1, t, l, textKw, labelKw)

\* for col in df.columns: ... text_col = col ... label_col = col
\* (columns are identified by their position; None is no column)
RECURSIVE ScanColumns(_, _, _, _, _, _)
ScanColumns(cols, i, text_col, label_col, textKw, labelKw) ==
    IF i > Len(cols) THEN [text_col |-> text_col, label_col |-> label_col]
    ELSE LET col_lower == Lower(cols[i])
             t == IF \E k \in textKw : Contains(col_lower, k) THEN i ELSE text_col
             l == IF \E k \in labelKw : Contains(col_lower, k) THEN i ELSE label_col
         IN  ScanColumns(cols, i + 1, t, l, textKw, labelKw)

\* 'url' in df.columns: the position of the column of exactly that name
ColumnNamed(cols, name) ==
    IF \E i \in 1..Len(cols) : cols[i] = name
    THEN CHOOSE i \in 1..Len(cols) : cols[i] = name
    ELSE None

DigitChars == <<"0","1","2","3","4","5","6","7","8","9">>

IsDigit(c) == \E i \in 1..10 : DigitChars[i] = c

DigitValue(c) == (CHOOSE i \in 1..10 : DigitChars[i] = c) - 1

IsDigits(s) == Len(s) > 0 /\ \A i \in 1..Len(s) : IsDigit(s[i])

RECURSIVE DigitsValue(_)
DigitsValue(s) ==
    IF s = <<>> THEN 0
    ELSE 10 * DigitsValue(SubSeq(s, 1, Len(s) - 1)) + DigitValue(s[Len(s)])

\* a cell the parser reads as an integer
IsIntLit(s) == IsDigits(s) \/ (Len(s) > 1 /\ s[1] = "-" /\ IsDigits(Tail(s)))

IntValue(s) == IF s[1] = "-" THEN 0 - DigitsValue(Tail(s)) ELSE DigitsValue(s)

\* a cell the parser reads as a float: <integer>.<digits>
IsFloatLit(s) ==
    \E k \in 2..(Len(s) - 1) :
        /\ s[k] = "."
        /\ IsIntLit(SubSeq(s, 1, k - 1))
        /\ IsDigits(SubSeq(s, k + 1, Len(s)))

\* the cast of a float to int drops the fraction (towards zero)
Truncate(s) ==
    IF IsIntLit(s) THEN IntValue(s)
    ELSE IntValue(SubSeq(s, 1, (CHOOSE k \in 2..(Len(s) - 1) : s[k] = ".") - 1))

\* The dtype read_csv gives a column: object for a column without rows or
\* with a cell that is not a number, float64 when a cell is empty or has a
\* fraction, int64 otherwise.
ColumnDtype(rows, c) ==
    IF Len(rows) = 0 THEN "object"
    ELSE IF \A r \in 1..Len(rows) : IsIntLit(rows[r][c]) THEN "int64"
    ELSE IF \A r \in 1..Len(rows) :
                rows[r][c] = Null \/ IsIntLit(rows[r][c]) \/ IsFloatLit(rows[r][c])
         THEN "float64"
    ELSE "object"

\* df.dropna(subset=[text_col, label_col])
DropNa(rows, text_col, label_col) ==
    SelectSeq(rows, LAMBDA r : r[text_col] # Null /\ r[label_col] # Null)

Column(rows, c) == [r \in 1..Len(rows) |-> rows[r][c]]

w_ham == <<"h","a","m">>
w_legitimate == <<"l","e","g","i","t","i","m","a","t","e">>
w_safe == <<"s","a","f","e">>
w_normal == <<"n","o","r","m","a","l">>
w_spam == <<"s","p","a","m">>
w_phishing == <<"p","h","i","s","h","i","n","g">>
w_phish == <<"p","h","i","s","h">>
w_malicious == <<"m","a","l","i","c","i","o","u","s">>
w_smishing == <<"s","m","i","s","h","i","n","g">>

label_mapping ==
    [w \in {w_ham, w_legitimate, w_safe, w_normal,
            w_spam, w_phishing, w_phish, w_malicious, w_smishing} |->
        IF w \in {w_ham, w_legitimate, w_safe, w_normal} THEN 0 ELSE 1]

\* .map(label_mapping) with every label it does not know mapped to class 0
MapLabelDefault(s) == IF s \in DOMAIN label_mapping THEN Fin(label_mapping[s]) ELSE Fin(0)

\* .map(label_mapping): a label the mapping does not know becomes NaN
MapLabel(s) == IF s \in DOMAIN label_mapping THEN Fin(label_mapping[s]) ELSE NaN

\* .astype(int) of a column of the given dtype: the integers, or the
\* ValueError of a cell that int() does not take
AsTypeInt(cells, dtype) ==
    IF dtype = "object"
    THEN IF \A i \in 1..Len(cells) : IsIntLit(cells[i])
         THEN [ok |-> TRUE, values |-> [i \in 1..Len(cells) |-> IntValue(cells[i])]]
         ELSE [ok |-> FALSE, values |-> <<>>]
    ELSE [ok |-> TRUE, values |-> [i \in 1..Len(cells) |-> Truncate(cells[i])]]

\* .astype(int) of the mapped labels: NaN cannot be cast
AsTypeIntMapped(mapped) ==
    IF \A i \in 1..Len(mapped) : IsFinite(mapped[i])
    THEN [ok |-> TRUE, values |-> [i \in 1..Len(mapped) |-> mapped[i].v]]
    ELSE [ok |-> FALSE, values |-> <<>>]

Raised(site, listed, text_col, label_col) ==
    [status |-> "ValueError", site |-> site, listed |-> listed,
     text_col |-> text_col, label_col |-> label_col, texts |-> <<>>, labels |-> <<>>]

\* return df[text_col].values, df[label_col].values
Returned(df, cast, text_col, label_col) ==
    IF ~cast.ok THEN Raised("astype", <<>>, text_col, label_col)
    ELSE [status |-> "ok", site |-> "none", listed |-> <<>>,
          text_col |-> text_col, label_col |-> label_col,
          texts |-> IF text_col = label_col THEN cast.values ELSE Column(df, text_col),
          labels |-> cast.values]

load_email_dataset(t) ==
    LET found == ScanColumns(t.cols, 1, None, None, EmailTextKeywords, EmailLabelKeywords)
        text_col == found.text_col
        label_col == found.label_col
        df == DropNa(t.rows, text_col, label_col)
    IN  IF text_col = None \/ label_col = None
        THEN Raised("columns", t.cols, text_col, label_col)
        ELSE Returned(df, AsTypeInt(Column(df, label_col), ColumnDtype(t.rows, label_col)),
                      text_col, label_col)

load_sms_dataset(t) ==
    LET found == ScanColumns(t.cols, 1, None, None, SmsTextKeywords, SmsLabelKeywords)
        text_col == found.text_col
        label_col == found.label_col
        df == DropNa(t.rows, text_col, label_col)
        dtype == ColumnDtype(t.rows, label_col)
        cells == Column(df, label_col)
    IN  IF text_col = None \/ label_col = None
        THEN Raised("columns", t.cols, text_col, label_col)
        ELSE IF dtype = "object"
        THEN Returned(df, AsTypeIntMapped([i \in 1..Len(cells) |-> MapLabel(Lower(cells[i]))]),
                      text_col, label_col)
        ELSE Returned(df, AsTypeInt(cells, dtype), text_col, label_col)

load_url_dataset(t) ==
    LET text_col == ColumnNamed(t.cols, kw_url)
        label_col == ColumnNamed(t.cols, kw_label)
        df == DropNa(t.rows, text_col, label_col)
    IN  IF text_col = None \/ label_col = None
        THEN Raised("columns", <<>>, text_col, label_col)
        ELSE Returned(df, AsTypeInt(Column(df, label_col), ColumnDtype(t.rows, label_col)),
                      text_col, label_col)

\* The headers and the cells of the tables the loaders are applied to.
c_text == <<"t","e","x","t">>
c_label == <<"l","a","b","e","l">>
c_Label == <<"L","a","b","e","l">>
c_url == <<"u","r","l">>
c_spam == <<"s","p","a","m">>

Headers ==
    {<<c_text, c_label>>, <<c_label, c_text>>, <<c_url, c_label>>,
     <<c_text, c_Label>>, <<c_text, c_spam>>}

TextCells == {Null, <<"m">>}

LabelCells ==
    {Null, <<"0">>, <<"1">>, <<"2">>, <<"0",".","7">>,
     <<"h","a","m">>, <<"S","P","A","M">>, <<"j","u","n","k">>}

\* the rows of a table under a header: a text cell under the text or url
\* column, a label cell under the other one
RowsFor(h) ==
    IF h[1] = c_label
    THEN {<<l, t>> : l \in LabelCells, t \in TextCells}
    ELSE {<<t, l>> : t \in TextCells, l \in LabelCells}

LoadInit ==
    /\ loader \in {"email", "sms", "url"}
    /\ \E h \in Headers : \E rows \in SeqsUpTo(RowsFor(h), MaxRows) :
            table = [cols |-> h, rows |-> rows]
    /\ loaded = NotLoaded
    /\ RunIdle /\ UrlIdle /\ FnIdle

LoadEmailDataset ==
    /\ loader = "email" /\ loaded.status = "none"
    /\ loaded' = load_email_dataset(table)
    /\ UNCHANGED <<loader, table, runVars, urlVars, fnVars>>

LoadSmsDataset ==
    /\ loader = "sms" /\ loaded.status = "none"
    /\ loaded' = load_sms_dataset(table)
    /\ UNCHANGED <<loader, table, runVars, urlVars, fnVars>>

LoadUrlDataset ==
    /\ loader = "url" /\ loaded.status = "none"
    /\ loaded' = load_url_dataset(table)
    /\ UNCHANGED <<loader, table, runVars, urlVars, fnVars>>

LoadNext == LoadEmailDataset \/ LoadSmsDataset \/ LoadUrlDataset

SpecLoad == LoadInit /\ [][LoadNext]_vars

\* C9: every label a loader returns is 0 or 1.
C9_LabelsAreBinary ==
    loaded.status = "ok" => \A i \in 1..Len(loaded.labels) : loaded.labels[i] \in {0, 1}

\* The lexicon as the label cells spell it, and the cells that are numbers.
C10_Class(cell) ==
    IF cell \in {<<"h","a","m">>, <<"H","a","m">>, <<"H","A","M">>} THEN 0
    ELSE IF cell \in {<<"s","p","a","m">>, <<"S","p","a","m">>, <<"S","P","A","M">>} THEN 1
    ELSE None

C10_Numbers == {<<"0">>, <<"1">>, <<"2">>, <<"0",".","7">>}

C10_HoldsStrings ==
    \E r \in 1..Len(table.rows) :
        table.rows[r][loaded.label_col] \notin (C10_Numbers \cup {Null})

\* the rows that have a text and a label
C10_Kept ==
    SelectSeq(table.rows,
              LAMBDA r : r[loaded.text_col] # Null /\ r[loaded.label_col] # Null)

C10_Applies == loaded.status # "none" /\ loaded.site # "columns" /\ C10_HoldsStrings

C10_Mapped ==
    IF \E i \in 1..Len(C10_Kept) : C10_Class(C10_Kept[i][loaded.label_col]) = None
    THEN loaded.status = "ValueError" /\ loaded.site = "astype"
         /\ loaded.texts = <<>> /\ loaded.labels = <<>>
    ELSE /\ loaded.status = "ok"
         /\ loaded.labels = [i \in 1..Len(C10_Kept) |-> C10_Class(C10_Kept[i][loaded.label_col])]
         /\ loaded.texts = [i \in 1..Len(C10_Kept) |-> C10_Kept[i][loaded.text_col]]

\* C10 as stated, for every loader: when the label column holds strings, a
\* row with a text whose label is outside the lexicon makes the load fail,
\* and otherwise the labels returned are the classes of the lexicon.
C10_Original == C10_Applies => C10_Mapped

\* C10 amended: that holds of load_sms_dataset, which alone has the lexicon
\* (the failure is the ValueError of the integer cast); load_email_dataset
\* and load_url_dataset cast the cells, so a word of the lexicon in a row
\* they keep makes them fail with the same ValueError.
C10_SmsLabelMapping ==
    /\ (loader = "sms" /\ C10_Applies) => C10_Mapped
    /\ (loader \in {"email", "url"} /\ C10_Applies
          /\ \E i \in 1..Len(C10_Kept) : C10_Class(C10_Kept[i][loaded.label_col]) # None)
        => (loaded.status = "ValueError" /\ loaded.site = "astype")

C10_Witness ==
    /\ loader = "sms"
    /\ table = [cols |-> <<c_text, c_label>>,
                 rows |-> << <<<<"m">>, <<"S","P","A","M">>>>, <<<<"m">>, <<"j","u","n","k">>>> >>]
    /\ loaded.status = "ValueError"
    /\ loaded.site = "astype"

----------------------------------------------------------------------------
(* The loaders applied to every header over a set of column names.         *)

MaxCols == 3

c_sms == <<"s","m","s">>
c_email == <<"e","m","a","i","l">>
c_foo == <<"f","o","o">>
c_bar == <<"b","a","r">>

ColumnNames == {c_text, c_label, c_Label, c_url, c_spam, c_sms, c_email, c_foo, c_bar}

\* read_csv never yields two columns of one name
Distinct(h) == \A i, j \in 1..Len(h) : h[i] = h[j] => i = j

\* no row, or one row with a 1 in every column
RowsUnder(h) == {<<>>, <<[i \in 1..Len(h) |-> <<"1">>]>>}

ColsInit ==
    /\ loader \in {"email", "sms", "url"}
    /\ \E h \in SeqsUpTo(ColumnNames, MaxCols) :
            /\ Distinct(h)
            /\ \E rows \in RowsUnder(h) : table = [cols |-> h, rows |-> rows]
    /\ loaded = NotLoaded
    /\ RunIdle /\ UrlIdle /\ FnIdle

SpecCols == ColsInit /\ [][LoadNext]_vars

\* the last position of the header whose name is in the set, None if none
C11_Last(names) ==
    IF \E i \in 1..Len(table.cols) : table.cols[i] \in names
    THEN CHOOSE i \in 1..Len(table.cols) :
            /\ table.cols[i] \in names
            /\ \A j \in (i + 1)..Len(table.cols) : table.cols[j] \notin names
    ELSE None

C11_Scanned == loader \in {"email", "sms"} /\ loaded.status # "none"

\* C11 as stated: both heuristic loaders choose the last column whose name
\* contains any of email, text, content, message, sms as text column and the
\* last whose name contains any of label, class, target, spam as label column.
C11_Original ==
    C11_Scanned =>
        /\ loaded.text_col = C11_Last({c_text, c_sms, c_email})
        /\ loaded.label_col = C11_Last({c_label, c_Label, c_spam})

\* C11 amended: each loader has its own keywords. load_email_dataset takes
\* the last column containing email, text, content or message and the last
\* containing label, class or target; load_sms_dataset the last containing
\* sms, text, message or content and the last containing label, class,
\* target or spam.
C11_LastMatchPerLoader ==
    /\ (loader = "email" /\ loaded.status # "none") =>
            /\ loaded.text_col = C11_Last({c_text, c_email})
            /\ loaded.label_col = C11_Last({c_label, c_Label})
    /\ (loader = "sms" /\ loaded.status # "none") =>
            /\ loaded.text_col = C11_Last({c_text, c_sms})
            /\ loaded.label_col = C11_Last({c_label, c_Label, c_spam})

C11_Witness ==
    /\ loader = "sms"
    /\ table.cols = <<c_text, c_sms, c_spam>>
    /\ loaded.status = "ok"
    /\ loaded.text_col = 2
    /\ loaded.label_col = 3

\* the table has no text column or no label column, as the loader sees it
C12_Missing ==
    \/ loader = "email" /\ (C11_Last({c_text, c_email}) = None \/ C11_Last({c_label, c_Label}) = None)
    \/ loader = "sms" /\ (C11_Last({c_text, c_sms}) = None \/ C11_Last({c_label, c_Label, c_spam}) = None)
    \/ loader = "url" /\ (C11_Last({c_url}) = None \/ C11_Last({c_label}) = None)

\* C12: a table without text column or without label column makes every
\* loader fail with an error whose message lists the table's column names,
\* and nothing is returned.
C12_SchemaErrorListsColumns ==
    (loaded.status # "none" /\ C12_Missing) =>
        /\ loaded.status = "ValueError"
        /\ loaded.site = "columns"
        /\ loaded.listed = table.cols
        /\ loaded.texts = <<>> /\ loaded.labels = <<>>

----------------------------------------------------------------------------
(* Class weights (train_sms_model).  The counts are numpy integers and `/`  *)
(* is the float64 division: the quotient is rounded to 53 significant bits, *)
(* ties to even.  A positive float64 is [e, b]: b its 53 bits, the first    *)
(* being 1, and its value is b[1].b[2]...b[53] (binary) times 2^e.          *)

MaxCount == 80

MANT_DIG == 53

\* the k >= 0 with d * 2^k <= t < d * 2^(k+1), for t >= d
RECURSIVE ExponentUp(_, _)
ExponentUp(t, d) == IF 2 * d <= t THEN 1 + ExponentUp(t, 2 * d) ELSE 0

\* the k > 0 with d <= t * 2^k < 2 * d, for t < d
RECURSIVE ExponentDown(_, _)
ExponentDown(t, d) == IF 2 * t < d THEN 1 + ExponentDown(2 * t, d) ELSE 1

RECURSIVE Pow2(_)
Pow2(k) == IF k = 0 THEN 1 ELSE 2 * Pow2(k - 1)

\* long division: n more bits of r / den, and the remainder (doubled)
RECURSIVE DivBits(_, _, _, _)
DivBits(r, den, n, acc) ==
    IF n = 0 THEN [b |-> acc, r |-> r]
    ELSE IF r >= den THEN DivBits(2 * (r - den), den, n - 1, Append(acc, 1))
    ELSE DivBits(2 * r, den, n - 1, Append(acc, 0))

\* b + 1 on the last bit; carry is 1 when every bit was 1
RECURSIVE Increment(_, _)
Increment(b, i) ==
    IF i = 0 THEN [b |-> b, carry |-> 1]
    ELSE IF b[i] = 0 THEN [b |-> [b EXCEPT ![i] = 1], carry |-> 0]
    ELSE Increment([b EXCEPT ![i] = 0], i - 1)

\* the quotient cut after 53 bits, never rounded up
RoundDown(e, b, up) == [e |-> e, b |-> b]

\* round to nearest, ties to even
RoundNearestEven(e, b, up) ==
    IF ~up THEN [e |-> e, b |-> b]
    ELSE LET inc == Increment(b, Len(b))
         IN  IF inc.carry = 1
             THEN [e |-> e + 1, b |-> [i \in 1..Len(b) |-> IF i = 1 THEN 1 ELSE 0]]
             ELSE [e |-> e, b |-> inc.b]

\* t / d for numpy integers t > 0, d > 0
TrueDivide(t, d) ==
    LET e == IF t >= d THEN ExponentUp(t, d) ELSE 0 - ExponentDown(t, d)
        num == IF t >= d THEN t ELSE t * Pow2(0 - e)
        den == IF t >= d THEN d * Pow2(e) ELSE d
        q == DivBits(num, den, MANT_DIG, <<>>)
        up == q.r > den \/ (q.r = den /\ q.b[MANT_DIG] = 1)
    IN  RoundNearestEven(e, q.b, up)

\* class_weights of lines 221-232, from the counts of y_train
ClassWeights(class_0_count, class_1_count) ==
    IF class_0_count > 0 /\ class_1_count > 0
    THEN LET total == class_0_count + class_1_count
         IN  [w0 |-> TrueDivide(total, 2 * class_0_count),
              w1 |-> TrueDivide(total, 2 * class_1_count)]
    ELSE None

WeightsInit ==
    /\ call = "class_weights"
    /\ args \in [class_0_count : 0..MaxCount, class_1_count : 0..MaxCount]
    /\ ret = <<>>
    /\ RunIdle /\ UrlIdle /\ LoadIdle

ComputeClassWeights ==
    /\ call = "class_weights" /\ ret = <<>>
    /\ ret' = <<ClassWeights(args.class_0_count, args.class_1_count)>>
    /\ UNCHANGED <<call, args, runVars, urlVars, loadVars>>

SpecWeights == WeightsInit /\ [][ComputeClassWeights]_vars

\* the binary digits of a natural number, none for 0
RECURSIVE C13_BinaryOf(_)
C13_BinaryOf(n) == IF n = 0 THEN <<>> ELSE Append(C13_BinaryOf(n \div 2), n % 2)

\* the digits of (the number with digits b) * n, from the last digit up
RECURSIVE C13_MulBits(_, _, _, _, _)
C13_MulBits(b, i, n, carry, acc) ==
    IF i = 0 THEN C13_BinaryOf(carry) \o acc
    ELSE IF (n * b[i] + carry) % 2 = 1
    THEN C13_MulBits(b, i - 1, n, (n * b[i] + carry) \div 2, <<1>> \o acc)
    ELSE C13_MulBits(b, i - 1, n, (n * b[i] + carry) \div 2, <<0>> \o acc)

\* A - B for two numbers of as many digits, exact between -1000 and 1000
RECURSIVE C13_Diff(_, _, _, _)
C13_Diff(A, B, i, acc) ==
    IF i > Len(A) THEN acc
    ELSE IF acc >= 500 THEN 1000
    ELSE IF acc <= 0 - 500 THEN 0 - 1000
    ELSE C13_Diff(A, B, i + 1, 2 * acc + A[i] - B[i])

C13_PadLeft(X, n) == [i \in 1..(n - Len(X)) |-> 0] \o X

\* 2 * d * w - t * 2^(53 - e) in units of the last bit of w, halved:
\* w is t / d exactly when it is 0, and the float64 nearest to t / d when
\* it lies within -d..d (and w is even at the ends)
C13_Error(w, t, d) ==
    LET A == C13_MulBits(w.b, Len(w.b), 2 * d, 0, <<>>)
        B == C13_BinaryOf(t) \o [i \in 1..(53 - w.e) |-> 0]
        n == IF Len(A) > Len(B) THEN Len(A) ELSE Len(B)
    IN  C13_Diff(C13_PadLeft(A, n), C13_PadLeft(B, n), 1, 0)

C13_IsQuotient(w, t, d) ==
    /\ Len(w.b) = 53 /\ w.b[1] = 1
    /\ C13_Error(w, t, d) \in (0 - d)..d
    /\ C13_Error(w, t, d) \in {0 - d, d} => w.b[53] = 0

\* the float64 product n * w
C13_Times(n, w) ==
    LET P == C13_MulBits(w.b, Len(w.b), n, 0, <<>>)
        extra == Len(P) - 53
        head == SubSeq(P, 1, 53)
        up == /\ extra > 0
              /\ P[54] = 1
              /\ (head[53] = 1 \/ \E i \in 55..Len(P) : P[i] = 1)
    IN  IF ~up THEN [e |-> w.e + extra, b |-> head]
        ELSE IF \A i \in 1..53 : head[i] = 1
        THEN [e |-> w.e + extra + 1, b |-> [i \in 1..53 |-> IF i = 1 THEN 1 ELSE 0]]
        ELSE [e |-> w.e + extra, b |-> Increment(head, 53).b]

\* 1.01 (binary): 0.625 = 1.01 * 2^-1 and 2.5 = 1.01 * 2^1
C13_OneAndAQuarter == [i \in 1..53 |-> IF i \in {1, 3} THEN 1 ELSE 0]

C13_Computed == call = "class_weights" /\ ret # <<>>
                    /\ args.class_0_count > 0 /\ args.class_1_count > 0

C13_Weights ==
    LET n0 == args.class_0_count
        n1 == args.class_1_count
    IN  /\ C13_IsQuotient(ret[1].w0, n0 + n1, 2 * n0)
        /\ C13_IsQuotient(ret[1].w1, n0 + n1, 2 * n1)
        /\ (n0 = 80 /\ n1 = 20) =>
              /\ ret[1].w0 = [e |-> 0 - 1, b |-> C13_OneAndAQuarter]
              /\ ret[1].w1 = [e |-> 1, b |-> C13_OneAndAQuarter]

\* C13 as stated: the weights are (n0+n1)/(2*n0) and (n0+n1)/(2*n1), for
\* (80, 20) they are 0.625 and 2.5, and n0 * weight[0] = n1 * weight[1].
C13_Original ==
    C13_Computed =>
        /\ C13_Weights
        /\ C13_Times(args.class_0_count, ret[1].w0) = C13_Times(args.class_1_count, ret[1].w1)

\* C13 amended: the weights are the float64 quotients, each the float64
\* nearest to the exact ratio, for (80, 20) they are 0.625 and 2.5, and
\* n0 * weight[0] = n1 * weight[1] when both ratios are float64 numbers.
C13_ClassWeights ==
    C13_Computed =>
        /\ C13_Weights
        /\ (/\ C13_Error(ret[1].w0, args.class_0_count + args.class_1_count,
                          2 * args.class_0_count) = 0
             /\ C13_Error(ret[1].w1, args.class_0_count + args.class_1_count,
                          2 * args.class_1_count) = 0)
            => C13_Times(args.class_0_count, ret[1].w0)
                 = C13_Times(args.class_1_count, ret[1].w1)

C13_Witness ==
    /\ call = "class_weights"
    /\ args = [class_0_count |-> 80, class_1_count |-> 20]
    /\ ret = <<[w0 |-> [e |-> 0 - 1, b |-> C13_OneAndAQuarter],
                w1 |-> [e |-> 1, b |-> C13_OneAndAQuarter]]>>

----------------------------------------------------------------------------
(* The evaluation report: the metrics and the confusion matrix of the test *)
(* partition (steps 10 and 11 of train_sms_model, the same in the others).  *)

MaxTest == 3

\* np.unique: the values of a set in increasing order
RECURSIVE Sorted(_)
Sorted(S) ==
    IF S = {} THEN <<>>
    ELSE LET least == CHOOSE x \in S : \A y \in S : x <= y
         IN  <<least>> \o Sorted(S \ {least})

Values(seq) == {seq[i] : i \in 1..Len(seq)}

\* confusion_matrix(y_true, y_pred): one row and one column for each value
\* that occurs in y_true or y_pred, in increasing order
confusion_matrix(y_true, y_pred) ==
    LET labels == Sorted(Values(y_true) \cup Values(y_pred))
    IN  [i \in 1..Len(labels) |-> [j \in 1..Len(labels) |->
            Cardinality({k \in 1..Len(y_true) :
                            y_true[k] = labels[i] /\ y_pred[k] = labels[j]})]]

\* precision_recall_fscore_support(y_test, y_pred, average='binary') raises
\* when more than two values occur in the targets, or when the positive
\* class 1 is not among the two that occur
MetricsRaise(y_test, y_pred) ==
    LET present == Values(y_test) \cup Values(y_pred)
    IN  \/ Cardinality(present) > 2
        \/ (1 \notin present /\ Cardinality(present) >= 2)

\* steps 10 and 11: the metrics, then cm and the print of its four entries
EvaluationReport(y_test, y_pred) ==
    LET cm == confusion_matrix(y_test, y_pred)
    IN  IF MetricsRaise(y_test, y_pred) THEN [status |-> "ValueError", cm |-> <<>>]
        ELSE IF Len(cm) < 2 THEN [status |-> "IndexError", cm |-> cm]
        ELSE [status |-> "ok", cm |-> cm]

ReportInit ==
    /\ call = "report"
    /\ \E n \in 1..MaxTest :
            args \in [y_test : [1..n -> {0, 1, 2}], y_pred : [1..n -> {0, 1}]]
    /\ ret = <<>>
    /\ RunIdle /\ UrlIdle /\ LoadIdle

PrintReport ==
    /\ call = "report" /\ ret = <<>>
    /\ ret' = <<EvaluationReport(args.y_test, args.y_pred)>>
    /\ UNCHANGED <<call, args, runVars, urlVars, loadVars>>

SpecReport == ReportInit /\ [][PrintReport]_vars

C14_Count(a, p) ==
    Cardinality({k \in 1..Len(args.y_test) : args.y_test[k] = a /\ args.y_pred[k] = p})

\* C14: for every test partition (labels 0 and 1) and every vector of
\* predictions, the four entries cm[0][0], cm[0][1], cm[1][0], cm[1][1]
\* exist, cm[a][p] counts the examples of actual class a predicted p, they
\* sum to the size of the test partition, and cm[1][0] + cm[1][1] is the
\* number of test labels equal to 1.
C14_ConfusionMatrix ==
    (call = "report" /\ ret # <<>> /\ Values(args.y_test) \subseteq {0, 1}) =>
        /\ ret[1].status = "ok"
        /\ Len(ret[1].cm) >= 2 /\ \A i \in 1..2 : Len(ret[1].cm[i]) >= 2
        /\ \A a, p \in {0, 1} : ret[1].cm[a + 1][p + 1] = C14_Count(a, p)
        /\ ret[1].cm[1][1] + ret[1].cm[1][2] + ret[1].cm[2][1] + ret[1].cm[2][2]
             = Len(args.y_test)
        /\ ret[1].cm[2][1] + ret[1].cm[2][2]
             = Cardinality({k \in 1..Len(args.y_test) : args.y_test[k] = 1})

----------------------------------------------------------------------------
(* clean_sms_text: the four steps on a string of characters, each re.sub    *)
(* scanning its input from left to right for the leftmost match.            *)

MaxPieces == 3

MIN_DIGITS == 10

IsSpace(c) == c \in {" ", "\t", "\n"}

IsLetter(c) == \E i \in 1..Len(LowerCase) : LowerCase[i] = c \/ UpperCase[i] = c

\* \w
IsWord(c) == IsLetter(c) \/ IsDigit(c) \/ c = "_"

\* \S, \d and \s as classes of characters
InClass(class, c) ==
    IF class = "S" THEN ~IsSpace(c) ELSE IF class = "d" THEN IsDigit(c) ELSE IsSpace(c)

\* the end of the longest run of characters of the class that starts at i
\* (i - 1 when text[i] is not in it)
RECURSIVE RunEnd(_, _, _)
RunEnd(text, i, class) ==
    IF i <= Len(text) /\ InClass(class, text[i]) THEN RunEnd(text, i + 1, class) ELSE i - 1

StartsWith(text, i, prefix) ==
    /\ i + Len(prefix) - 1 <= Len(text)
    /\ SubSeq(text, i, i + Len(prefix) - 1) = prefix

t_url == <<" ","u","r","l"," ">>
t_phonenumber == <<" ","p","h","o","n","e","n","u","m","b","e","r"," ">>
r_http == <<"h","t","t","p">>
r_www == <<"w","w","w",".">>

\* re.sub(r'http\S+|www\.\S+', ' url ', text)
RECURSIVE SubUrls(_, _)
SubUrls(text, i) ==
    IF i > Len(text) THEN <<>>
    ELSE IF StartsWith(text, i, r_http) /\ RunEnd(text, i + 4, "S") >= i + 4
    THEN t_url \o SubUrls(text, RunEnd(text, i + 4, "S") + 1)
    ELSE IF StartsWith(text, i, r_www) /\ RunEnd(text, i + 4, "S") >= i + 4
    THEN t_url \o SubUrls(text, RunEnd(text, i + 4, "S") + 1)
    ELSE <<text[i]>> \o SubUrls(text, i + 1)

\* \b before text[i], the first of a run of digits
BoundaryBefore(text, i) == i = 1 \/ ~IsWord(text[i - 1])

\* a character that is not of a word has to follow: the end does not count
BoundaryAfterNotAtEnd(text, j) == j < Len(text) /\ ~IsWord(text[j + 1])

\* \b after text[j], the last of a run of digits
BoundaryAfter(text, j) == j = Len(text) \/ ~IsWord(text[j + 1])

\* re.sub(r'\b\d{10,}\b', ' phonenumber ', text)
RECURSIVE SubPhoneNumbers(_, _)
SubPhoneNumbers(text, i) ==
    IF i > Len(text) THEN <<>>
    ELSE IF /\ IsDigit(text[i])
            /\ BoundaryBefore(text, i)
            /\ RunEnd(text, i, "d") - i + 1 >= MIN_DIGITS
            /\ BoundaryAfter(text, RunEnd(text, i, "d"))
    THEN t_phonenumber \o SubPhoneNumbers(text, RunEnd(text, i, "d") + 1)
    ELSE <<text[i]>> \o SubPhoneNumbers(text, i + 1)

\* re.sub(r'\s+', ' ', text)
RECURSIVE SubSpaces(_, _)
SubSpaces(text, i) ==
    IF i > Len(text) THEN <<>>
    ELSE IF IsSpace(text[i]) THEN <<" ">> \o SubSpaces(text, RunEnd(text, i, "s") + 1)
    ELSE <<text[i]>> \o SubSpaces(text, i + 1)

\* .strip()
RECURSIVE Strip(_)
Strip(text) ==
    IF text = <<>> THEN text
    ELSE IF IsSpace(text[1]) THEN Strip(Tail(text))
    ELSE IF IsSpace(text[Len(text)]) THEN Strip(SubSeq(text, 1, Len(text) - 1))
    ELSE text

clean_sms_text(text) ==
    Strip(SubSpaces(SubPhoneNumbers(SubUrls(Lower(text), 1), 1), 1))

\* the messages: up to MaxPieces of these pieces, one after the other
Pieces ==
    {<<"a">>, <<"A">>, <<" ">>, <<"\t">>, <<".">>, <<"_">>, <<"1">>,
     [i \in 1..9 |-> "1"], [i \in 1..10 |-> "1"], r_http, r_www}

RECURSIVE Concat(_)
Concat(ps) == IF ps = <<>> THEN <<>> ELSE ps[1] \o Concat(Tail(ps))

CleanInit ==
    /\ call = "clean_sms_text"
    /\ \E ps \in SeqsUpTo(Pieces, MaxPieces) : args = [text |-> Concat(ps)]
    /\ ret = <<>>
    /\ RunIdle /\ UrlIdle /\ LoadIdle

CleanSmsText ==
    /\ call = "clean_sms_text" /\ ret = <<>>
    /\ ret' = <<clean_sms_text(args.text)>>
    /\ UNCHANGED <<call, args, runVars, urlVars, loadVars>>

SpecClean == CleanInit /\ [][CleanSmsText]_vars

C16_Digits == {"0", "1", "2", "3", "4", "5", "6", "7", "8", "9"}

C16_WordNeighbours ==
    {"a","b","c","d","e","f","g","h","i","j","k","l","m",
     "n","o","p","q","r","s","t","u","v","w","x","y","z","_"}

C16_Upper ==
    {"A","B","C","D","E","F","G","H","I","J","K","L","M",
     "N","O","P","Q","R","S","T","U","V","W","X","Y","Z"}

C16_Whitespace == {" ", "\t", "\n"}

C16_Cleaned == call = "clean_sms_text" /\ ret # <<>>

\* lower-cased, no two adjacent whitespace characters, none at either end
C16_Normalised(out) ==
    /\ \A i \in 1..Len(out) : out[i] \notin C16_Upper
    /\ \A i \in 1..(Len(out) - 1) :
            ~(out[i] \in C16_Whitespace /\ out[i + 1] \in C16_Whitespace)
    /\ out # <<>> => (out[1] \notin C16_Whitespace /\ out[Len(out)] \notin C16_Whitespace)

\* out[i..j] is a run of ten or more digits that no digit precedes or follows
C16_LongRun(out, i, j) ==
    /\ j - i + 1 >= 10
    /\ \A k \in i..j : out[k] \in C16_Digits
    /\ i = 1 \/ out[i - 1] \notin C16_Digits
    /\ j = Len(out) \/ out[j + 1] \notin C16_Digits

\* C16 as stated: the output of clean_sms_text has no run of ten or more
\* digits, is lower-cased, has no two adjacent whitespace characters and no
\* whitespace at either end.
C16_Original ==
    C16_Cleaned =>
        /\ C16_Normalised(ret[1])
        /\ \A i, j \in 1..Len(ret[1]) : ~C16_LongRun(ret[1], i, j)

\* C16 amended: clean_sms_text replaces the runs of ten or more digits that
\* stand between word boundaries, so every run of ten or more digits left in
\* its output has a letter or an underscore right before or right after it;
\* the output is lower-cased, has no two adjacent whitespace characters and
\* no whitespace at either end.
C16_CleanSmsText ==
    C16_Cleaned =>
        /\ C16_Normalised(ret[1])
        /\ \A i, j \in 1..Len(ret[1]) :
              C16_LongRun(ret[1], i, j) =>
                 \/ (i > 1 /\ ret[1][i - 1] \in C16_WordNeighbours)
                 \/ (j < Len(ret[1]) /\ ret[1][j + 1] \in C16_WordNeighbours)

C16_Witness ==
    /\ call = "clean_sms_text"
    /\ args.text = <<"1","1","1","1","1","1","1","1","1","1","\t","A">>
    /\ ret = <<<<"p","h","o","n","e","n","u","m","b","e","r"," ","a">>>>

----------------------------------------------------------------------------
(* The word-level encoders: keras.layers.TextVectorization adapted on the   *)
(* training texts and then called on the training and on the test texts     *)
(* (preprocess_sms, preprocess_emails_for_lstm and their callers).          *)

MaxTrainTexts == 2
MaxTestTexts == 1

MAX_SMS_LENGTH == 160
MAX_EMAIL_LENGTH == 512
SMS_VOCAB_SIZE == 5000
EMAIL_VOCAB_SIZE == 10000

\* the characters in the order of their code points
AsciiOrder == <<" ", ".">> \o DigitChars \o UpperCase \o <<"_">> \o LowerCase

Ord(c) == CHOOSE i \in 1..Len(AsciiOrder) : AsciiOrder[i] = c

RECURSIVE LexLess(_, _)
LexLess(a, b) ==
    IF a = <<>> THEN b # <<>>
    ELSE IF b = <<>> THEN FALSE
    ELSE IF Ord(a[1]) < Ord(b[1]) THEN TRUE
    ELSE IF Ord(a[1]) > Ord(b[1]) THEN FALSE
    ELSE LexLess(Tail(a), Tail(b))

\* the default standardize of TextVectorization strips these
Punctuation ==
    {"!", "\"", "#", "$", "%", "&", "(", ")", "*", "+", ",", "-", ".", "/", ":", ";",
     "<", "=", ">", "?", "@", "[", "\\", "]", "^", "_", "`", "{", "|", "}", "~", "'"}

\* standardize='lower_and_strip_punctuation'
LowerAndStripPunctuation(text) ==
    SelectSeq(Lower(text), LAMBDA c : c \notin Punctuation)

\* split='whitespace'
RECURSIVE SplitWhitespace(_, _)
SplitWhitespace(text, i) ==
    IF i > Len(text) THEN <<>>
    ELSE IF IsSpace(text[i]) THEN SplitWhitespace(text, i + 1)
    ELSE <<SubSeq(text, i, RunEnd(text, i, "S"))>>
            \o SplitWhitespace(text, RunEnd(text, i, "S") + 1)

\* what the layer of a pipeline does to a text before it looks words up
Tokens(mod, text) ==
    IF mod = "sms" THEN SplitWhitespace(clean_sms_text(text), 1)
    ELSE SplitWhitespace(LowerAndStripPunctuation(text), 1)

RECURSIVE AllTokens(_, _)
AllTokens(mod, texts) ==
    IF texts = <<>> THEN <<>> ELSE Tokens(mod, texts[1]) \o AllTokens(mod, Tail(texts))

Count(seq, x) == Cardinality({i \in 1..Len(seq) : seq[i] = x})

\* the words by falling count, and by falling code points among equal counts
RECURSIVE ByFrequency(_, _)
ByFrequency(words, seq) ==
    IF words = {} THEN <<>>
    ELSE LET top == CHOOSE t \in words : \A u \in words :
                        \/ u = t
                        \/ Count(seq, u) < Count(seq, t)
                        \/ (Count(seq, u) = Count(seq, t) /\ LexLess(u, t))
         IN  <<top>> \o ByFrequency(words \ {top}, seq)

v_pad == <<>>
v_unk == <<"[", "U", "N", "K", "]">>

MaxTokens(mod) == IF mod = "sms" THEN SMS_VOCAB_SIZE ELSE EMAIL_VOCAB_SIZE

OutputSequenceLength(mod) == IF mod = "sms" THEN MAX_SMS_LENGTH ELSE MAX_EMAIL_LENGTH

\* vectorize_layer.adapt(texts): '', '[UNK]' and the max_tokens - 2 most
\* frequent words
Adapt(mod, texts) ==
    LET seq == AllTokens(mod, texts)
        ranked == ByFrequency(Values(seq), seq)
        kept == IF Len(ranked) > MaxTokens(mod) - 2 THEN MaxTokens(mod) - 2 ELSE Len(ranked)
    IN  <<v_pad, v_unk>> \o SubSeq(ranked, 1, kept)

\* the id of a word: its place in the vocabulary, 1 for a word not in it
Lookup(vocabulary, word) ==
    IF \E i \in 1..Len(vocabulary) : vocabulary[i] = word
    THEN (CHOOSE i \in 1..Len(vocabulary) : vocabulary[i] = word) - 1
    ELSE 1

\* vectorize_layer(texts): ids, cut or padded with 0 to the output length
Vectorize(mod, vocabulary, text) ==
    LET words == Tokens(mod, text)
    IN  [i \in 1..OutputSequenceLength(mod) |->
            IF i <= Len(words) THEN Lookup(vocabulary, words[i]) ELSE 0]

\* the texts the layer is adapted on when the test texts are not held back
AdaptedOnAll(train, test) == train \o test

\* the texts the layer is adapted on: messages_train / emails_train
AdaptedOn(train, test) == train

\* steps 2 and 3 of a run on the partitions (train, test)
Preprocess(mod, train, test) ==
    LET vocabulary == Adapt(mod, AdaptedOn(train, test))
    IN  [vocabulary |-> vocabulary,
         X_train |-> [i \in 1..Len(train) |-> Vectorize(mod, vocabulary, train[i])],
         X_test |-> [i \in 1..Len(test) |-> Vectorize(mod, vocabulary, test[i])]]

m_ab == <<"a", " ", "b">>
m_Ba == <<"B", " ", " ", "a", ".">>
m_c_number == <<"c", " ", "1", "1", "1", "1", "1", "1", "1", "1", "1", "1">>

Messages == {m_ab, m_Ba, m_c_number}

\* Two runs of a word-level pipeline side by side: the same training
\* partition, two test partitions.
EncodeInit ==
    /\ call = "preprocess"
    /\ args \in [mod : {"sms", "email_lstm"},
                  train : SeqsUpTo(Messages, MaxTrainTexts),
                  test_a : SeqsUpTo(Messages, MaxTestTexts),
                  test_b : SeqsUpTo(Messages, MaxTestTexts)]
    /\ ret = <<>>
    /\ RunIdle /\ UrlIdle /\ LoadIdle

PreprocessPartitions ==
    /\ call = "preprocess" /\ ret = <<>>
    /\ ret' = <<[a |-> Preprocess(args.mod, args.train, args.test_a),
                 b |-> Preprocess(args.mod, args.train, args.test_b)]>>
    /\ UNCHANGED <<call, args, runVars, urlVars, loadVars>>

SpecEncode == EncodeInit /\ [][PreprocessPartitions]_vars

\* the words of each message as each pipeline sees them
C15_Words(mod, msg) ==
    IF msg = m_ab THEN {<<"a">>, <<"b">>}
    ELSE IF msg = m_Ba THEN (IF mod = "sms" THEN {<<"b">>, <<"a", ".">>} ELSE {<<"b">>, <<"a">>})
    ELSE IF mod = "sms" THEN {<<"c">>, <<"p","h","o","n","e","n","u","m","b","e","r">>}
    ELSE {<<"c">>, <<"1", "1", "1", "1", "1", "1", "1", "1", "1", "1">>}

\* C15: the vocabulary is a function of the training partition alone (two
\* runs with the same training partition and different test partitions
\* build the same vocabulary, made of the words of the training texts), and
\* the test texts are encoded with that same state: a text has one encoding,
\* whichever partition and run it is in.
C15_VocabularyFromTraining ==
    (call = "preprocess" /\ ret # <<>>) =>
        LET a == ret[1].a
            b == ret[1].b
        IN  /\ a.vocabulary = b.vocabulary
            /\ {a.vocabulary[i] : i \in 3..Len(a.vocabulary)}
                 = UNION {C15_Words(args.mod, args.train[i]) : i \in 1..Len(args.train)}
            /\ a.X_train = b.X_train
            /\ \A i \in 1..Len(args.test_a), j \in 1..Len(args.test_b) :
                    args.test_a[i] = args.test_b[j] => a.X_test[i] = b.X_test[j]
            /\ \A i \in 1..Len(args.train), j \in 1..Len(args.test_a) :
                    args.train[i] = args.test_a[j] => a.X_train[i] = a.X_test[j]

C15_Witness ==
    /\ call = "preprocess"
    /\ args = [mod |-> "sms", train |-> <<m_ab>>, test_a |-> <<m_Ba>>, test_b |-> <<m_c_number>>]
    /\ ret # <<>>
    /\ ret[1].a.vocabulary = <<v_pad, v_unk, <<"b">>, <<"a">>>>
    /\ ret[1].b.vocabulary = ret[1].a.vocabulary
    /\ SubSeq(ret[1].a.X_test[1], 1, 3) = <<2, 1, 0>>
    /\ SubSeq(ret[1].b.X_test[1], 1, 3) = <<1, 1, 0>>

----------------------------------------------------------------------------
(* The metadata record each pipeline builds and dumps to metadata.json.     *)
(* A dict is a function from its keys.  The simplified email pipeline is    *)
(* left out: it never gets as far (BuildOutcomes).                          *)

MaxLabels == 2

MAX_URL_LENGTH == 200

Metrics ==
    [k \in {"accuracy", "precision", "recall", "f1_score", "loss"} |-> "float"]

BatchSize(mod) == IF mod = "sms" THEN 32 ELSE IF mod = "url" THEN 64 ELSE 16

TrainingParams(mod) ==
    [k \in {"epochs", "batch_size", "validation_split", "test_size"} |->
        IF k = "epochs" THEN <<EPOCHS(mod)>>
        ELSE IF k = "batch_size" THEN <<BatchSize(mod)>>
        ELSE IF k = "validation_split" THEN <<"0.2">>
        ELSE <<"0.15">>]

\* the dict d with one more key
With(dict, key, value) ==
    [k \in DOMAIN dict \cup {key} |-> IF k = key THEN value ELSE dict[k]]

DatasetInfo(legitimate_key, c) ==
    [k \in {"total_samples", "training_samples", "test_samples",
             legitimate_key, "phishing_count"} |->
        IF k = "total_samples" THEN c.train_0 + c.train_1 + c.test_0 + c.test_1
        ELSE IF k = "training_samples" THEN c.train_0 + c.train_1
        ELSE IF k = "test_samples" THEN c.test_0 + c.test_1
        ELSE IF k = legitimate_key THEN c.train_0 + c.test_0
        ELSE c.train_1 + c.test_1]

\* metadata of train_email_model(use_simplified=False)
EmailMetadata(c) ==
    [k \in {"model_type", "version", "max_length", "vocab_size",
             "metrics", "training_params", "dataset_info"} |->
        IF k = "model_type" THEN <<"email_distilbert">>
        ELSE IF k = "version" THEN <<"1.0">>
        ELSE IF k = "max_length" THEN <<MAX_EMAIL_LENGTH>>
        ELSE IF k = "vocab_size" THEN <<30522>>
        ELSE IF k = "metrics" THEN Metrics
        ELSE IF k = "training_params" THEN TrainingParams("email_bert")
        ELSE DatasetInfo("legitimate_count", c)]

\* metadata of train_sms_model
SmsMetadata(c) ==
    [k \in {"model_type", "version", "max_sms_length", "vocab_size", "embedding_dim",
             "metrics", "training_params", "dataset_info"} |->
        IF k = "model_type" THEN <<"sms_bilstm">>
        ELSE IF k = "version" THEN <<"1.0">>
        ELSE IF k = "max_sms_length" THEN <<MAX_SMS_LENGTH>>
        ELSE IF k = "vocab_size" THEN <<SMS_VOCAB_SIZE>>
        ELSE IF k = "embedding_dim" THEN <<100>>
        ELSE IF k = "metrics" THEN Metrics
        ELSE IF k = "training_params"
        THEN With(TrainingParams("sms"), "class_weights", <<ClassWeights(c.train_0, c.train_1)>>)
        ELSE DatasetInfo("legitimate_count", c)]

\* metadata of train_url_model
UrlMetadata(c) ==
    [k \in {"model_type", "version", "max_url_length", "vocab_size", "embedding_dim",
             "metrics", "training_params", "dataset_info"} |->
        IF k = "model_type" THEN <<"url_character_cnn">>
        ELSE IF k = "version" THEN <<"1.0">>
        ELSE IF k = "max_url_length" THEN <<MAX_URL_LENGTH>>
        ELSE IF k = "vocab_size" THEN <<VOCAB_SIZE>>
        ELSE IF k = "embedding_dim" THEN <<64>>
        ELSE IF k = "metrics" THEN Metrics
        ELSE IF k = "training_params" THEN TrainingParams("url")
        ELSE DatasetInfo("safe_count", c)]

Metadata(mod, c) ==
    IF mod = "sms" THEN SmsMetadata(c)
    ELSE IF mod = "url" THEN UrlMetadata(c)
    ELSE EmailMetadata(c)

MetadataInit ==
    /\ call = "metadata"
    /\ args \in [mod : {"email_bert", "sms", "url"},
                  train_0 : 0..MaxLabels, train_1 : 0..MaxLabels,
                  test_0 : 0..MaxLabels, test_1 : 0..MaxLabels]
    /\ args.train_0 + args.train_1 > 0
    /\ args.test_0 + args.test_1 > 0
    /\ ret = <<>>
    /\ RunIdle /\ UrlIdle /\ LoadIdle

BuildMetadata ==
    /\ call = "metadata" /\ ret = <<>>
    /\ ret' = <<Metadata(args.mod, args)>>
    /\ UNCHANGED <<call, args, runVars, urlVars, loadVars>>

SpecMetadata == MetadataInit /\ [][BuildMetadata]_vars

\* the names under which a pipeline may record its maximum length
C17_SizingKeys(mod) ==
    IF mod = "sms" THEN {"sms_max_length", "max_sms_length"}
    ELSE IF mod = "url" THEN {"url_max_length", "max_url_length"}
    ELSE {"email_max_length", "max_email_length", "max_length"}

\* C17: the metadata record of every pipeline has the keys of the fixed
\* schema: model_type, version, one sizing key, vocab_size, metrics
\* {accuracy, precision, recall, f1_score, loss}, training_params {epochs,
\* batch_size, validation_split, test_size, class_weights} and dataset_info
\* {total_samples, training_samples, test_samples, legitimate_count,
\* phishing_count}.
C17_MetadataSchema ==
    (call = "metadata" /\ ret # <<>>) =>
        /\ \E size \in C17_SizingKeys(args.mod) :
              DOMAIN ret[1] = {"model_type", "version", size, "vocab_size",
                               "metrics", "training_params", "dataset_info"}
        /\ DOMAIN ret[1]["metrics"] = {"accuracy", "precision", "recall", "f1_score", "loss"}
        /\ DOMAIN ret[1]["training_params"]
             = {"epochs", "batch_size", "validation_split", "test_size", "class_weights"}
        /\ DOMAIN ret[1]["dataset_info"]
             = {"total_samples", "training_samples", "test_samples",
                "legitimate_count", "phishing_count"}

----------------------------------------------------------------------------
(* A run in which nothing outside the script goes wrong: no step raises     *)
(* where it could have succeeded, and every loss is finite.                 *)

\* the step raises whatever the environment does
AlwaysRaises == pc = "build" /\ TRUE \notin BuildOutcomes(m)

NoFault ==
    /\ pc' = "aborted" => AlwaysRaises
    /\ ~hist'.nonfinite
    /\ UNCHANGED <<urlVars, loadVars, fnVars>>

NoFaultNext ==
    \/ Load /\ NoFault
    \/ Split /\ NoFault
    \/ Encode /\ NoFault
    \/ Build /\ NoFault
    \/ RunEpoch /\ NoFault
    \/ Evaluate /\ NoFault
    \/ Report /\ NoFault
    \/ SaveNative /\ NoFault
    \/ SaveTfjs /\ NoFault
    \/ SaveVocab /\ NoFault
    \/ OpenMetadata /\ NoFault
    \/ DumpMetadata /\ NoFault

SpecNoFault == Init /\ [][NoFaultNext]_vars

\* C18: for every modality, a run on a well-formed dataset in which no I/O
\* operation fails and the loss stays finite does not abort at any stage
\* on its way to the metadata write, and fit runs at most EPOCHS epochs.
C18_RunCompletes ==
    /\ pc # "aborted"
    /\ epoch <= EPOCHS(m)

----------------------------------------------------------------------------
(* Successive runs of one script: every run writes to the same directories  *)
(* (MODEL_SAVE_PATH, TFJS_SAVE_PATH), and finds the files earlier runs left. *)

MaxRuns == 2

\* the script is started again after the previous run has ended
NextRun ==
    /\ Ended
    /\ run < MaxRuns
    /\ run' = run + 1
    /\ pc' = "load"
    /\ epoch' = 0
    /\ weights' = 0
    /\ stop_training' = FALSE
    /\ lr' = InitialLr(m)
    /\ es' = [wait |-> 0, best |-> PosInf, best_weights |-> None]
    /\ rlr' = [wait |-> 0, best |-> PosInf]
    /\ ck' = [best |-> None]
    /\ hist' = HistInit
    /\ UNCHANGED <<m, ckpt, native, tfjs, vocab, meta>>

RunsEpoch == Epoch({Fin(0)}, {Fin(0)}, {0}, {"ok", "fail_partial"})

RunsNext ==
    \/ Load /\ UNCHANGED <<urlVars, loadVars, fnVars>>
    \/ Split /\ UNCHANGED <<urlVars, loadVars, fnVars>>
    \/ Encode /\ UNCHANGED <<urlVars, loadVars, fnVars>>
    \/ Build /\ UNCHANGED <<urlVars, loadVars, fnVars>>
    \/ RunsEpoch /\ UNCHANGED <<urlVars, loadVars, fnVars>>
    \/ Evaluate /\ UNCHANGED <<urlVars, loadVars, fnVars>>
    \/ Report /\ UNCHANGED <<urlVars, loadVars, fnVars>>
    \/ SaveNative /\ UNCHANGED <<urlVars, loadVars, fnVars>>
    \/ SaveTfjs /\ UNCHANGED <<urlVars, loadVars, fnVars>>
    \/ SaveVocab /\ UNCHANGED <<urlVars, loadVars, fnVars>>
    \/ OpenMetadata /\ UNCHANGED <<urlVars, loadVars, fnVars>>
    \/ DumpMetadata /\ UNCHANGED <<urlVars, loadVars, fnVars>>
    \/ NextRun /\ UNCHANGED <<urlVars, loadVars, fnVars>>

SpecRuns == Init /\ [][RunsNext]_vars

\* the exported model files that are in the directory
C19_ModelFiles == {f \in {native, tfjs, vocab} : f.st # "absent"}

\* C19: after any sequence of runs writing to the same output directory,
\* aborted ones included, a metadata.json that is present was written by
\* the run that wrote the model files (and vocabulary) present beside it.
C19_MetadataFromSameRun ==
    (Ended /\ meta.st # "absent") =>
        \A f \in C19_ModelFiles : f.run = meta.run

----------------------------------------------------------------------------
(* The weights that are evaluated and exported *)

\* fit has returned to train_*_model
C20_FitReturned ==
    /\ epoch >= 1
    /\ pc # "fit"
    /\ hist.abortStep # "checkpoint"

\* the weights of this run that have been used or written since
C20_Used ==
    {weights}
        \cup {hist.evaluated : x \in {y \in {1} : hist.evaluated # None}}
        \cup {f.w : f \in {g \in {native, tfjs} : g.run = run /\ g.st # "absent"}}

\* C20 as stated: whenever fit has returned, by early stopping or at the
\* EPOCHS limit, the model that is evaluated and exported holds the
\* weights of the epoch with the lowest validation loss (runs without a
\* NaN validation loss).
C20_Original ==
    (C20_FitReturned /\ ~hist.valNaN) => C20_Used = {hist.minEpoch}

\* the earliest epoch with the lowest finite validation loss; the first
\* epoch if no validation loss was finite
C20_Best == IF IsFinite(hist.min) THEN hist.minEpoch ELSE 1

\* C20: when fit has returned because early stopping fired, the model that
\* is evaluated and exported holds the weights of the earliest epoch with
\* the lowest finite validation loss; when it has returned at the EPOCHS
\* limit without early stopping, the weights of the last epoch.  The
\* checkpoint file is not loaded back: the weights never change after fit.
C20_ExportedWeights ==
    C20_FitReturned =>
        /\ stop_training => C20_Used = {C20_Best}
        /\ ~stop_training => epoch = EPOCHS(m) /\ C20_Used = {epoch}

C20_Witness ==
    /\ pc = "done"
    /\ ~stop_training
    /\ ~hist.valNaN
    /\ epoch = EPOCHS(m)
    /\ hist.minEpoch < epoch
    /\ hist.evaluated = epoch
    /\ native = File("complete", run, epoch)
    /\ ckpt.w # epoch

----------------------------------------------------------------------------
(* The heuristic loaders on headers with names that hold a text keyword    *)
(* and a label keyword at once.                                            *)

c_text_label == <<"t","e","x","t","_","l","a","b","e","l">>
c_spam_message == <<"s","p","a","m","_","m","e","s","s","a","g","e">>

AmbiguousNames == {c_text, c_label, c_text_label, c_spam_message, c_foo}

AmbiguousInit ==
    /\ loader \in {"email", "sms"}
    /\ \E h \in SeqsUpTo(AmbiguousNames, MaxCols) :
            /\ Distinct(h)
            /\ \E rows \in RowsUnder(h) : table = [cols |-> h, rows |-> rows]
    /\ loaded = NotLoaded
    /\ RunIdle /\ UrlIdle /\ FnIdle

AmbiguousNext == LoadEmailDataset \/ LoadSmsDataset

SpecAmbiguous == AmbiguousInit /\ [][AmbiguousNext]_vars

\* C21: whenever load_email_dataset or load_sms_dataset succeeds, the
\* column it chose as text column and the column it chose as label column
\* are two different columns.
C21_TextAndLabelDiffer ==
    (loader \in {"email", "sms"} /\ loaded.status = "ok") =>
        loaded.text_col # loaded.label_col

====
